---- MODULE Spec2Model ----
(***************************************************************************)
(* State-machine model of the DecentScale driver of pydecentscale          *)
(* (src/pydecentscale/__init__.py).                                        *)
(*                                                                         *)
(* The driver is one object used from a caller thread; its BLE I/O runs on *)
(* an asyncio loop thread.  A facade method blocks the caller in           *)
(* run_coro(...).result() until its coroutine has run on the loop; the     *)
(* transport (bleak) calls notification_handler on the loop thread.  The   *)
(* transport is external: each transport call's outcome is an input of the *)
(* action that makes it.                                                   *)
(*                                                                         *)
(* Python values: None is the empty tuple, a present value v is <<v>>;     *)
(* bytes objects are sequences of 0..255; self.weight (a float, raw/10) is *)
(* held as the raw count of tenths of a gram.                              *)
(***************************************************************************)
EXTENDS Integers, Sequences, FiniteSets, TLC

VARIABLES
    connected,            \* self.connected
    client,               \* self.client: None or the address of the BleakClient
    fix_dropped_command,  \* self.fix_dropped_command
    weight,               \* self.weight: None or tenths of a gram
    button_callbacks,     \* self.button_callbacks
    tare_commands,        \* position of the cycle() iterator self.tare_commands
    subscribed,           \* transport: start_notify is in effect on the link
    delivery,             \* transport: state of the notification delivery path
    loop,                 \* loop thread: "running", or "blocked" in a callback
    pc,                   \* caller thread: where a facade call in progress stands
    ac,                   \* auto_connect's locals and attempt counts
    notifying,            \* history: "never", "enabled" or "disabled"
    nTare,                \* history: number of _tare coroutines run so far
    last,                 \* history: the facade call, if it was the latest event
    notif                 \* history: the notification, if it was the latest event

vars == <<connected, client, fix_dropped_command, weight, button_callbacks,
          tare_commands, subscribed, delivery, loop, pc, ac, notifying, nTare,
          last, notif>>

(***************************************************************************)
(* Bounds of the model.                                                    *)
(***************************************************************************)
MaxRetries == 3
MaxTares == 4
MaxCallbacks == 2

(***************************************************************************)
(* Python values.                                                          *)
(***************************************************************************)
None == <<>>
Some(v) == <<v>>

Addresses == {"FF:FF:00:00:00:01"}
Callbacks == {"cb1", "cb2"}

(***************************************************************************)
(* Wire constants.                                                         *)
(***************************************************************************)
HEADER == \h03
FRAME_LEN == 7
WEIGHT_TYPES_and_tare == {\hCA, \hCE, \h0F}

WEIGHT_TYPES == {\hCA, \hCE}
BUTTON_TYPE == \hAA
TARE_TYPE == \h0F
STATUS_TYPE == \h0A
TIMER_TYPE == \h0B
FIRMWARE_VERSION == {\hFE, \h02}

CHAR_READ == "0000FFF4-0000-1000-8000-00805F9B34FB"
CHAR_WRITE == "000036f5-0000-1000-8000-00805f9b34fb"

tare_command_list ==
    << <<\h03, \h0F, \h00, \h00, \h00, \h00, \h0C>>,
       <<\h03, \h0F, \h01, \h00, \h00, \h00, \h0D>>,
       <<\h03, \h0F, \h02, \h00, \h00, \h00, \h0E>> >>
led_on_command == <<\h03, \h0A, \h01, \h01, \h00, \h00, \h09>>
led_off_command_bad_checksum == <<\h03, \h0A, \h00, \h00, \h00, \h00, \h0A>>
led_off_command == <<\h03, \h0A, \h00, \h00, \h00, \h00, \h09>>
start_time_command == <<\h03, \h0B, \h03, \h00, \h00, \h00, \h0B>>
stop_time_command == <<\h03, \h0B, \h00, \h00, \h00, \h00, \h08>>
reset_time_command == <<\h03, \h0B, \h02, \h00, \h00, \h00, \h0A>>

(***************************************************************************)
(* operator.xor on two bytes, and functools.reduce(operator.xor, s).       *)
(***************************************************************************)
RECURSIVE Xor(_, _)
Xor(a, b) ==
    IF a = 0 THEN b
    ELSE IF b = 0 THEN a
    ELSE (((a % 2) + (b % 2)) % 2) + (2 * Xor(a \div 2, b \div 2))

RECURSIVE XorFrom(_, _, _)
XorFrom(acc, s, i) ==
    IF i > Len(s) THEN acc ELSE XorFrom(Xor(acc, s[i]), s, i + 1)

XorReduce(s) == XorFrom(s[1], s, 2)

(***************************************************************************)
(* itertools.cycle over the three tare frames: tare_commands is the index  *)
(* (0-based) of the element the next next() returns.                       *)
(***************************************************************************)
CycleValue(pos) == tare_command_list[pos + 1]

CycleAdvanceNoWrap(pos) == IF pos + 1 < Len(tare_command_list) THEN pos + 1 ELSE pos

CycleAdvance(pos) == (pos + 1) % Len(tare_command_list)

(***************************************************************************)
(* The check_connection decorator: the wrapped method runs iff             *)
(* self.connected is truthy.                                               *)
(***************************************************************************)
check_connection_always(conn) == TRUE

check_connection(conn) == conn

\* The cycle position after a call the guard skipped: the decorator's else
\* branch only prints, next() is not reached.
skipped_cycle_advances(pos) == CycleAdvance(pos)

skipped_cycle(pos) == pos

(***************************************************************************)
(* What a coroutine awaits, as recorded in the history, in order: the      *)
(* transport calls (the operation, the characteristic, the argument - the  *)
(* frame written, the address opened - and whether the call succeeded) and *)
(* the asyncio.sleep calls (the argument is the time in milliseconds).     *)
(***************************************************************************)
Call(op, char, arg, ok) == [op |-> op, char |-> char, arg |-> arg, ok |-> ok]

Sleep(ms) == Call("sleep", "", ms, TRUE)

\* self.dropped_command_sleep = 0.05, and the sleeps that end __send and
\* _enable_notification, in milliseconds
dropped_command_sleep == 50
send_settle_sleep == 200
notify_settle_sleep == 1000

(***************************************************************************)
(* __send(cmd).  f is the write that faults: 0 none, 1 the first           *)
(* write_gatt_char, 2 the resend.  A fault ends the coroutine there.       *)
(***************************************************************************)
SendCallsNoResend(cmd, fix, f) ==
    IF f = 1 THEN <<Call("write", CHAR_WRITE, cmd, FALSE)>>
    ELSE <<Call("write", CHAR_WRITE, cmd, TRUE), Sleep(send_settle_sleep)>>

SendCalls(cmd, fix, f) ==
    IF f = 1 THEN <<Call("write", CHAR_WRITE, cmd, FALSE)>>
    ELSE IF fix
         THEN IF f = 2
              THEN <<Call("write", CHAR_WRITE, cmd, TRUE),
                     Sleep(dropped_command_sleep),
                     Call("write", CHAR_WRITE, cmd, FALSE)>>
              ELSE <<Call("write", CHAR_WRITE, cmd, TRUE),
                     Sleep(dropped_command_sleep),
                     Call("write", CHAR_WRITE, cmd, TRUE),
                     Sleep(send_settle_sleep)>>
         ELSE <<Call("write", CHAR_WRITE, cmd, TRUE), Sleep(send_settle_sleep)>>

SendRaised(fix, f) == f = 1 \/ (fix /\ f = 2)

WriteFaults == 0..2

(***************************************************************************)
(* History records.                                                        *)
(***************************************************************************)
NoCall == [op |-> "none", wasConnected |-> FALSE, skipped |-> FALSE,
           printed |-> "", calls |-> <<>>, result |-> "None", raised |-> FALSE]

NoNotif == [data |-> <<>>, kind |-> "none", invoked |-> <<>>, log |-> <<>>,
            raised |-> FALSE, weightBefore |-> None]

AcIdle == [phase |-> "idle", n |-> 0, i |-> 0, address |-> None,
           nFind |-> 0, nNone |-> 0, nConnect |-> 0, result |-> "pending"]

Ran(op, calls, result, raised) ==
    [op |-> op, wasConnected |-> connected, skipped |-> FALSE, printed |-> "",
     calls |-> calls, result |-> result, raised |-> raised]

Skipped(op, printed, result) ==
    [op |-> op, wasConnected |-> connected, skipped |-> TRUE,
     printed |-> printed, calls |-> <<>>, result |-> result, raised |-> FALSE]

BoolStr(b) == IF b THEN "True" ELSE "False"

\* The caller thread is not inside a facade call.
CallerFree == pc = "idle" /\ ac.phase \in {"idle", "done"}

\* The caller thread is free to start a facade call and the loop thread is
\* there to run the coroutine run_coro hands it.
Idle == CallerFree /\ loop = "running"

Init ==
    /\ connected = FALSE
    /\ client = None
    /\ fix_dropped_command \in BOOLEAN
    /\ weight = None
    /\ button_callbacks = <<>>
    /\ tare_commands = 0
    /\ subscribed = FALSE
    /\ delivery = "ok"
    /\ loop = "running"
    /\ pc = "idle"
    /\ ac = AcIdle
    /\ notifying = "never"
    /\ nTare = 0
    /\ last = NoCall
    /\ notif = NoNotif

(***************************************************************************)
(* A @check_connection method whose body is run_coro(__send(cmd)):         *)
(* start_time, stop_time, reset_time, led_on, led_off.                     *)
(***************************************************************************)
GuardedSend(op, cmd, f) ==
    /\ Idle
    /\ last' = IF check_connection(connected)
               THEN Ran(op, SendCalls(cmd, fix_dropped_command, f), "None",
                        SendRaised(fix_dropped_command, f))
               ELSE Skipped(op, "Scale is not connected.", "None")
    /\ ac' = AcIdle
    /\ notif' = NoNotif
    /\ UNCHANGED <<connected, client, fix_dropped_command, weight,
                   button_callbacks, tare_commands, subscribed, delivery, loop, pc,
                   notifying, nTare>>

start_time == \E f \in WriteFaults : GuardedSend("start_time", start_time_command, f)
stop_time == \E f \in WriteFaults : GuardedSend("stop_time", stop_time_command, f)
reset_time == \E f \in WriteFaults : GuardedSend("reset_time", reset_time_command, f)
led_on == \E f \in WriteFaults : GuardedSend("led_on", led_on_command, f)
led_off == \E f \in WriteFaults : GuardedSend("led_off", led_off_command, f)

(***************************************************************************)
(* tare(): guarded; _tare takes next(self.tare_commands) and sends it.     *)
(***************************************************************************)
tare ==
    \E f \in WriteFaults :
        /\ Idle
        /\ IF check_connection(connected)
           THEN /\ nTare < MaxTares
                /\ tare_commands' = CycleAdvance(tare_commands)
                /\ nTare' = nTare + 1
                /\ last' = Ran("tare",
                               SendCalls(CycleValue(tare_commands),
                                         fix_dropped_command, f),
                               "None", SendRaised(fix_dropped_command, f))
           ELSE /\ last' = Skipped("tare", "Scale is not connected.", "None")
                /\ tare_commands' = skipped_cycle(tare_commands)
                /\ UNCHANGED nTare
        /\ ac' = AcIdle
        /\ notif' = NoNotif
        /\ UNCHANGED <<connected, client, fix_dropped_command, weight,
                       button_callbacks, subscribed, delivery, loop, pc, notifying>>

(***************************************************************************)
(* connect(address).  o is what client.connect does: "true", "false" or    *)
(* "raise" (caught in _connect, which then returns False); f1 and f2 are   *)
(* the write faults of led_off() and led_on().                             *)
(***************************************************************************)
ConnectOutcomes == {"true", "false", "raise"}

\* `self.led_off()` then `self.led_on()` after a successful _connect
connect_blink_swapped == <<led_on_command, led_off_command>>

connect_blink == <<led_off_command, led_on_command>>

\* `if not self.connected:` in connect()
connect_runs_always(conn) == TRUE

connect_runs(conn) == ~conn

connect_body(address, o, f1, f2) ==
    IF connect_runs(connected)
    THEN LET conn == (o = "true")
             open == <<Call("connect", "", address, conn)>>
             off == IF conn /\ check_connection(conn)
                    THEN SendCalls(connect_blink[1], fix_dropped_command, f1)
                    ELSE <<>>
             offRaised == conn /\ SendRaised(fix_dropped_command, f1)
             on == IF conn /\ ~offRaised /\ check_connection(conn)
                   THEN SendCalls(connect_blink[2], fix_dropped_command, f2)
                   ELSE <<>>
             onRaised == conn /\ ~offRaised /\ SendRaised(fix_dropped_command, f2)
             raised == offRaised \/ onRaised
         IN  /\ client' = Some(address)
             /\ connected' = conn
             /\ last' = Ran("connect", open \o off \o on,
                            IF raised THEN "None" ELSE BoolStr(conn), raised)
    ELSE /\ last' = Skipped("connect", "Already connected.", BoolStr(connected))
         /\ UNCHANGED <<connected, client>>

connect ==
    \E a \in Addresses, o \in ConnectOutcomes, f1 \in WriteFaults, f2 \in WriteFaults :
        /\ CallerFree
        /\ loop = "running" \/ ~connect_runs(connected)
        /\ connect_body(a, o, f1, f2)
        /\ ac' = AcIdle
        /\ notif' = NoNotif
        /\ UNCHANGED <<fix_dropped_command, weight, button_callbacks,
                       tare_commands, subscribed, delivery, loop, pc, notifying, nTare>>

(***************************************************************************)
(* disconnect().  o is what client.disconnect does.                        *)
(***************************************************************************)
DisconnectOutcomes == {"true", "false", "raise"}

disconnect_runs_always(conn) == TRUE

disconnect_runs(conn) == conn

disconnect ==
    \E o \in DisconnectOutcomes :
        /\ Idle
        /\ IF disconnect_runs(connected)
           THEN /\ connected' = IF o = "raise" THEN connected ELSE ~(o = "true")
                /\ subscribed' = IF o = "true" THEN FALSE ELSE subscribed
                /\ last' = Ran("disconnect",
                               <<Call("disconnect", "", client, o = "true")>>,
                               IF o = "raise" THEN "None" ELSE BoolStr(connected'),
                               o = "raise")
           ELSE /\ last' = Skipped("disconnect", "Already disconnected.",
                                   BoolStr(connected))
                /\ UNCHANGED <<connected, subscribed>>
        /\ ac' = AcIdle
        /\ notif' = NoNotif
        /\ UNCHANGED <<client, fix_dropped_command, weight, button_callbacks,
                       tare_commands, delivery, loop, pc, notifying, nTare>>

(***************************************************************************)
(* find_address().  s is what the scan does: "found" (the device, whose    *)
(* address is returned), "none" (no device within the timeout) or "raise". *)
(***************************************************************************)
ScanOutcomes == {"found", "none", "raise"}

ScanResult(s, a) == IF s = "found" THEN Some(a) ELSE None

find_record(s, a) ==
    [op |-> "find_address", wasConnected |-> connected, skipped |-> FALSE,
     printed |-> IF s = "none" THEN "Error: Scale not found. Trying again..." ELSE "",
     calls |-> <<Call("scan", "", "Decent Scale", s # "raise")>>,
     result |-> IF s = "found" THEN a ELSE "None",
     raised |-> s = "raise"]

find_address ==
    \E s \in ScanOutcomes, a \in Addresses :
        /\ Idle
        /\ last' = find_record(s, a)
        /\ ac' = AcIdle
        /\ notif' = NoNotif
        /\ UNCHANGED <<connected, client, fix_dropped_command, weight,
                       button_callbacks, tare_commands, subscribed, delivery, loop,
                       pc, notifying, nTare>>

(***************************************************************************)
(* auto_connect(n_retries), one step per loop iteration.                   *)
(*   phase "find":    the for loop over find_address()                     *)
(*   phase "connect": the for loop over connect(address)                   *)
(*   phase "done":    returned (result "True"/"False") or raised           *)
(***************************************************************************)
auto_connect_start ==
    \E n \in 0..MaxRetries :
        /\ Idle
        /\ ac' = [AcIdle EXCEPT !.n = n,
                                !.phase = IF n = 0 THEN "done" ELSE "find",
                                !.result = IF n = 0 THEN "False" ELSE "pending"]
        /\ last' = NoCall
        /\ notif' = NoNotif
        /\ UNCHANGED <<connected, client, fix_dropped_command, weight,
                       button_callbacks, tare_commands, subscribed, delivery, loop,
                       pc, notifying, nTare>>

\* `if address: ... break`
find_loop_never_breaks(address) == FALSE

find_loop_breaks(address) == address # None

auto_connect_find ==
    \E s \in ScanOutcomes, a \in Addresses :
        /\ pc = "idle"
        /\ loop = "running"
        /\ ac.phase = "find"
        /\ LET address == ScanResult(s, a)
               i1 == ac.i + 1
               leave == find_loop_breaks(address) \/ i1 = ac.n
           IN  ac' = IF s = "raise"
                     THEN [ac EXCEPT !.phase = "done", !.result = "raised",
                                     !.nFind = @ + 1]
                     ELSE [ac EXCEPT
                             !.address = address,
                             !.nFind = @ + 1,
                             !.nNone = IF address = None THEN @ + 1 ELSE @,
                             !.i = IF leave THEN 0 ELSE i1,
                             !.phase = IF ~leave THEN "find"
                                       ELSE IF address # None THEN "connect"
                                       ELSE "done",
                             !.result = IF leave /\ address = None
                                        THEN "False" ELSE "pending"]
        /\ last' = find_record(s, a)
        /\ notif' = NoNotif
        /\ UNCHANGED <<connected, client, fix_dropped_command, weight,
                       button_callbacks, tare_commands, subscribed, delivery, loop,
                       pc, notifying, nTare>>

auto_connect_connect ==
    \E o \in ConnectOutcomes, f1 \in WriteFaults, f2 \in WriteFaults :
        /\ pc = "idle"
        /\ loop = "running"
        /\ ac.phase = "connect"
        /\ connect_body(ac.address[1], o, f1, f2)
        /\ ac' = IF last'.raised
                 THEN [ac EXCEPT !.phase = "done", !.result = "raised",
                                 !.nConnect = @ + 1]
                 ELSE IF last'.result = "True"
                 THEN [ac EXCEPT !.phase = "done", !.result = "True",
                                 !.nConnect = @ + 1]
                 ELSE IF ac.i + 1 = ac.n
                 THEN [ac EXCEPT !.phase = "done", !.result = "False",
                                 !.nConnect = @ + 1]
                 ELSE [ac EXCEPT !.i = @ + 1, !.nConnect = @ + 1]
        /\ notif' = NoNotif
        /\ UNCHANGED <<fix_dropped_command, weight, button_callbacks,
                       tare_commands, subscribed, delivery, loop, pc, notifying, nTare>>

(***************************************************************************)
(* enable_notification(): guarded; start_notify, then a 1 s settle sleep.  *)
(* o is what start_notify does.                                            *)
(***************************************************************************)
NotifyOutcomes == {"ok", "raise"}

enable_notification ==
    \E o \in NotifyOutcomes :
        /\ Idle
        /\ IF check_connection(connected)
           THEN /\ subscribed' = IF o = "ok" THEN TRUE ELSE subscribed
                /\ notifying' = IF o = "ok" THEN "enabled" ELSE notifying
                /\ last' = Ran("enable_notification",
                               <<Call("start_notify", CHAR_READ, "notification_handler",
                                      o = "ok")>>
                                 \o (IF o = "ok" THEN <<Sleep(notify_settle_sleep)>>
                                     ELSE <<>>),
                               "None", o = "raise")
           ELSE /\ last' = Skipped("enable_notification",
                                   "Scale is not connected.", "None")
                /\ UNCHANGED <<subscribed, notifying>>
        /\ ac' = AcIdle
        /\ notif' = NoNotif
        /\ UNCHANGED <<connected, client, fix_dropped_command, weight,
                       button_callbacks, tare_commands, delivery, loop, pc, nTare>>

(***************************************************************************)
(* disable_notification(): guarded.  The caller thread clears self.weight  *)
(* and then blocks in run_coro; stop_notify runs later on the loop thread, *)
(* after whatever the loop had to do first.  Two steps:                    *)
(*   disable_notification_clear   self.weight = None, coroutine submitted  *)
(*   disable_notification_stop    stop_notify has run, the call returns    *)
(***************************************************************************)
disable_notification_clear ==
    /\ CallerFree
    /\ IF check_connection(connected)
       THEN /\ weight' = None
            /\ pc' = "disable_notification"
            /\ last' = NoCall
       ELSE /\ last' = Skipped("disable_notification",
                               "Scale is not connected.", "None")
            /\ UNCHANGED <<weight, pc>>
    /\ ac' = AcIdle
    /\ notif' = NoNotif
    /\ UNCHANGED <<connected, client, fix_dropped_command, button_callbacks,
                   tare_commands, subscribed, delivery, loop, notifying, nTare>>

disable_notification_stop ==
    \E o \in NotifyOutcomes :
        /\ pc = "disable_notification"
        /\ loop = "running"
        /\ pc' = "idle"
        /\ subscribed' = IF o = "ok" THEN FALSE ELSE subscribed
        /\ notifying' = IF o = "ok" THEN "disabled" ELSE notifying
        /\ last' = Ran("disable_notification",
                       <<Call("stop_notify", CHAR_READ, "", o = "ok")>>,
                       "None", o = "raise")
        /\ UNCHANGED <<connected, client, fix_dropped_command, weight,
                       button_callbacks, tare_commands, delivery, loop, ac, nTare,
                       notif>>

(***************************************************************************)
(* add_button_handler(callback).                                           *)
(***************************************************************************)
add_button_handler ==
    \E cb \in Callbacks :
        /\ CallerFree
        /\ Len(button_callbacks) < MaxCallbacks
        /\ button_callbacks' = Append(button_callbacks, cb)
        /\ last' = NoCall
        /\ ac' = AcIdle
        /\ notif' = NoNotif
        /\ UNCHANGED <<connected, client, fix_dropped_command, weight,
                       tare_commands, subscribed, delivery, loop, pc, notifying,
                       nTare>>

(***************************************************************************)
(* Inbound payloads the link may deliver.  A prefix is the first six bytes *)
(* of a frame; Good appends its XOR, Bad appends its XOR with bit 0        *)
(* flipped.  Short and Long are 6- and 8-byte payloads.                    *)
(***************************************************************************)
Headers == {\h03, \h02}
Types == {\hCA, \hCE, \hAA, \h0F, \h0A, \h0B, \h55}
Fields == { <<\h00, \h64, \h00, \hFE>>, <<\hFF, \hF6, \h65, \h03>> }

Prefixes == { <<h, t>> \o d : h \in Headers, t \in Types, d \in Fields }

Good(p) == Append(p, XorReduce(p))
Bad(p) == Append(p, Xor(XorReduce(p), 1))

ShortPayloads == { p \in Prefixes : p[2] = \hCA /\ p[3] = \h00 }
LongPayloads == { Append(Good(p), \h00) : p \in ShortPayloads }

Payloads ==
    { Good(p) : p \in Prefixes } \cup { Bad(p) : p \in Prefixes }
        \cup ShortPayloads \cup LongPayloads \cup { <<>>, <<\h03>> }

\* Valid weight frames of both weight types over the 16-bit range: zero,
\* 10.0 g, 25.6 g, the largest positive, the most negative and the one next
\* to it, -1.0 g and -0.1 g.
WeightFields == { <<\h00, \h00>>, <<\h00, \h64>>, <<\h01, \h00>>,
                  <<\h7F, \hFF>>, <<\h80, \h00>>, <<\h80, \h01>>,
                  <<\hFF, \hF6>>, <<\hFF, \hFF>> }

WeightPayloads ==
    { Good(<<HEADER, t, w[1], w[2], \h00, \h00>>) :
          t \in WEIGHT_TYPES, w \in WeightFields }

(***************************************************************************)
(* notification_handler(sender, data).                                     *)
(***************************************************************************)
\* `data[0] != 0x03 or len(data) != 7`, for a payload that has a data[0]
IsInvalid(data) == data[1] # HEADER \/ Len(data) # FRAME_LEN

\* `xor_msg != data[-1]`, xor_msg the XOR of data[:-1]
XorFailsNever(data) == FALSE

XorFails(data) == XorReduce(SubSeq(data, 1, Len(data) - 1)) # data[Len(data)]

\* int.from_bytes(data[2:4], byteorder='big', signed=True), in tenths of a gram
DecodeWeightUnsigned(data) == data[3] * 256 + data[4]

DecodeWeight(data) ==
    LET raw == data[3] * 256 + data[4]
    IN  IF raw >= 32768 THEN raw - 65536 ELSE raw

\* What the handler does with data: the branch it ends in.  data[0] of an
\* empty payload raises IndexError before anything else is looked at.
Classify(data) ==
    IF Len(data) = 0 THEN "IndexError"
    ELSE IF IsInvalid(data) THEN "invalid"
    ELSE IF XorFails(data) THEN "xor_failed"
    ELSE IF data[2] \in WEIGHT_TYPES THEN "weight"
    ELSE IF data[2] = BUTTON_TYPE THEN "button"
    ELSE IF data[2] = TARE_TYPE THEN "tare"
    ELSE IF data[2] = STATUS_TYPE THEN "status"
    ELSE IF data[2] = TIMER_TYPE THEN "timer"
    ELSE "unknown"

\* The status branch (LED on/off reply): the unit, the battery level and the
\* firmware version are only logged.
StatusLog(data) ==
    << IF data[4] = 0 THEN "debug: Unit of scale: g"
       ELSE "debug: Unit of scale: oz",
       IF data[5] <= \h64 THEN "debug: battery level"
       ELSE IF data[5] = \hFF THEN "debug: Scale is running on USB power"
       ELSE "warning: Unknown battery level",
       IF data[6] \in FIRMWARE_VERSION THEN "debug: Firmware Version"
       ELSE "warning: Firmware Version is not known" >>

\* What the handler logs after its first debug line, by branch.
HandlerLog(data, kind) ==
    IF kind = "invalid" THEN <<"info: Invalid notification: not a Decent Scale?">>
    ELSE IF kind = "xor_failed"
    THEN <<"warning: XOR validation failed for notification">>
    ELSE IF kind = "button" THEN <<"debug: Button press">>
    ELSE IF kind = "status" THEN StatusLog(data)
    ELSE IF kind = "unknown" THEN <<"warning: Unknown Notification Type received">>
    ELSE <<>>

(***************************************************************************)
(* _handle_buttons(button, duration): the callbacks are called in list     *)
(* order; r is the position of the first one that raises (0: none does),   *)
(* and the loop ends there.                                                *)
(***************************************************************************)
HandleButtons(cbs, button, duration, r) ==
    LET m == IF r = 0 THEN Len(cbs) ELSE r
    IN  [i \in 1..m |-> <<cbs[i], "self", button, duration>>]

(***************************************************************************)
(* The link delivers data to notification_handler on the loop thread.  An  *)
(* exception leaving the handler goes into the transport's delivery path,  *)
(* which may or may not deliver again afterwards.  P is the set of         *)
(* payloads the link may deliver.                                          *)
(***************************************************************************)
Deliver(P) ==
    \E data \in P, r \in 0..MaxCallbacks :
        /\ subscribed
        /\ delivery = "ok"
        /\ loop = "running"
        /\ LET kind == Classify(data)
               raised == kind = "IndexError" \/ (kind = "button" /\ r > 0)
           IN  /\ r <= Len(button_callbacks)
               /\ kind # "button" => r = 0
               /\ weight' = IF kind = "weight" THEN Some(DecodeWeight(data))
                            ELSE weight
               /\ notif' = [data |-> data, kind |-> kind,
                            invoked |-> IF kind = "button"
                                        THEN HandleButtons(button_callbacks,
                                                           data[3], data[4], r)
                                        ELSE <<>>,
                            log |-> HandlerLog(data, kind),
                            raised |-> raised,
                            weightBefore |-> weight]
               /\ delivery' \in IF raised THEN {"ok", "crashed"} ELSE {"ok"}
        /\ last' = IF Idle THEN NoCall ELSE last
        /\ ac' = IF Idle THEN AcIdle ELSE ac
        /\ UNCHANGED <<connected, client, fix_dropped_command, button_callbacks,
                       tare_commands, subscribed, loop, pc, notifying, nTare>>

notification == Deliver(Payloads)

weight_notification == Deliver(WeightPayloads)

\* Valid button frames.
ButtonPayloads == { data \in Payloads : Classify(data) = "button" }

button_notification == Deliver(ButtonPayloads)

(***************************************************************************)
(* A button frame whose b-th callback calls a @check_connection facade     *)
(* method of the driver (tare(), led_on(), ...).  The callback runs on the *)
(* loop thread; the method's guard passes (a subscribed link is a          *)
(* connected one), run_coro submits the coroutine to the loop and waits in *)
(* Future.result() - on the only thread that could run that coroutine.     *)
(* The coroutine body has not started, so no field of the driver changes.  *)
(***************************************************************************)
button_callback_calls_driver ==
    \E data \in ButtonPayloads, b \in 1..MaxCallbacks :
        /\ subscribed
        /\ delivery = "ok"
        /\ loop = "running"
        /\ b <= Len(button_callbacks)
        /\ check_connection(connected)
        /\ loop' = "blocked"
        /\ notif' = [data |-> data, kind |-> "button",
                     invoked |-> HandleButtons(button_callbacks,
                                               data[3], data[4], b),
                     log |-> HandlerLog(data, "button"),
                     raised |-> FALSE,
                     weightBefore |-> weight]
        /\ last' = IF Idle THEN NoCall ELSE last
        /\ ac' = IF Idle THEN AcIdle ELSE ac
        /\ UNCHANGED <<connected, client, fix_dropped_command, weight,
                       button_callbacks, tare_commands, subscribed, delivery,
                       pc, notifying, nTare>>

(***************************************************************************)
(* A facade call from the caller thread that hands a coroutine to a loop   *)
(* thread blocked in a callback: the caller waits in Future.result() too.  *)
(***************************************************************************)
facade_call_blocks ==
    /\ CallerFree
    /\ loop = "blocked"
    /\ pc' = "run_coro"
    /\ last' = NoCall
    /\ ac' = AcIdle
    /\ notif' = NoNotif
    /\ UNCHANGED <<connected, client, fix_dropped_command, weight,
                   button_callbacks, tare_commands, subscribed, delivery, loop,
                   notifying, nTare>>

Next ==
    \/ connect
    \/ disconnect
    \/ find_address
    \/ auto_connect_start
    \/ auto_connect_find
    \/ auto_connect_connect
    \/ start_time
    \/ stop_time
    \/ reset_time
    \/ led_on
    \/ led_off
    \/ tare
    \/ enable_notification
    \/ disable_notification_clear
    \/ disable_notification_stop
    \/ add_button_handler
    \/ notification
    \/ weight_notification
    \/ button_notification
    \/ button_callback_calls_driver
    \/ facade_call_blocks

\* The whole driver.
Spec == Init /\ [][Next]_vars

(***************************************************************************)
(* SpecLink: the connection and command side of the driver, on a link that *)
(* delivers no notification and with no button handler registered.         *)
(***************************************************************************)
NextLink ==
    \/ connect
    \/ disconnect
    \/ find_address
    \/ auto_connect_start
    \/ auto_connect_find
    \/ auto_connect_connect
    \/ start_time
    \/ stop_time
    \/ reset_time
    \/ led_on
    \/ led_off
    \/ tare
    \/ enable_notification
    \/ disable_notification_clear
    \/ disable_notification_stop

SpecLink == Init /\ [][NextLink]_vars

(***************************************************************************)
(* SpecNotify: the notification side of the driver, constructed with the   *)
(* default fix_dropped_command=True: connecting, enabling and disabling    *)
(* notifications, registering button handlers, and the link delivering     *)
(* payloads.                                                               *)
(***************************************************************************)
InitNotify == Init /\ fix_dropped_command = TRUE

NextNotify ==
    \/ connect
    \/ disconnect
    \/ enable_notification
    \/ disable_notification_clear
    \/ disable_notification_stop
    \/ add_button_handler
    \/ notification

SpecNotify == InitNotify /\ [][NextNotify]_vars

(***************************************************************************)
(* SpecDecode: a driver with the default fix_dropped_command=True that     *)
(* connects, disconnects, enables notifications and receives valid weight  *)
(* frames over the 16-bit range.                                           *)
(***************************************************************************)
NextDecode ==
    \/ connect
    \/ disconnect
    \/ enable_notification
    \/ weight_notification

SpecDecode == InitNotify /\ [][NextDecode]_vars

(***************************************************************************)
(* SpecCallback: a driver with the default fix_dropped_command=True whose  *)
(* button handlers may call tare() or led_on() on it: connecting, enabling *)
(* notifications, registering handlers, button frames arriving, and the    *)
(* caller thread's own tare() and led_on().  Fairness: every step that     *)
(* stays possible is eventually taken - the loop runs what is ready, the   *)
(* transport completes every call, the caller keeps calling.               *)
(***************************************************************************)
NextCallback ==
    \/ connect
    \/ enable_notification
    \/ add_button_handler
    \/ button_notification
    \/ button_callback_calls_driver
    \/ tare
    \/ led_on
    \/ facade_call_blocks

SpecCallback == InitNotify /\ [][NextCallback]_vars /\ WF_vars(NextCallback)

(***************************************************************************)
(* Properties.                                                             *)
(***************************************************************************)
GuardedOps == {"tare", "start_time", "stop_time", "reset_time", "led_on",
               "led_off", "enable_notification", "disable_notification"}

\* C1: a guarded operation called while self.connected is false makes no
\* transport call (no write, no start_notify, no stop_notify), does not
\* touch the weight or start the unsubscribe, and only prints "Scale is not
\* connected."; whatever connects, failed connects, disconnects and
\* auto_connects came before.
C1_GuardedOpSkippedWhenNotConnected ==
    /\ (last.op \in GuardedOps /\ ~last.wasConnected) =>
          /\ last.skipped
          /\ last.calls = <<>>
          /\ last.printed = "Scale is not connected."
          /\ last.result = "None"
          /\ ~last.raised
    /\ pc = "disable_notification" => connected

\* C1 witness: a tare skipped by the guard on a driver that had been
\* connected (it tared before) and was disconnected again.
C1_Witness ==
    /\ last.op = "tare"
    /\ ~last.wasConnected
    /\ last.skipped
    /\ client # None
    /\ nTare > 0

\* C2: the k-th tare that runs on a connected driver writes only tare frames
\* whose sequence byte (byte 2) is (k-1) mod 3: 0, 1, 2, then 0 again on the
\* 4th, whatever other commands were issued in between.
C2_TareSequenceByte ==
    (last.op = "tare" /\ ~last.skipped) =>
        /\ nTare >= 1
        /\ Len(last.calls) >= 1
        /\ last.calls[1].op = "write"
        /\ \A i \in 1..Len(last.calls) :
              \/ last.calls[i].op = "sleep"
              \/ /\ last.calls[i].op = "write"
                 /\ last.calls[i].arg[2] = TARE_TYPE
                 /\ last.calls[i].arg[3] = (nTare - 1) % 3
                 /\ last.calls[i].arg = tare_command_list[((nTare - 1) % 3) + 1]

\* C2 witness: the 4th tare has wrapped to sequence byte 0x00.
C2_Witness ==
    /\ last.op = "tare"
    /\ ~last.skipped
    /\ nTare = 4
    /\ last.calls[1].arg[3] = 0
    /\ last.calls[1].ok

Classified == {"weight", "button", "tare", "status", "timer", "unknown"}

\* C3 as stated: for every 6-byte prefix p, p ++ XOR(p) passes validation
\* and is classified by its discriminator, and p ++ (XOR(p) ^ 1) is dropped
\* as a checksum mismatch, weight unchanged and no callback invoked.
C3_AnyPrefix ==
    \A p \in Prefixes :
        /\ notif.data = Good(p) => notif.kind \in Classified
        /\ notif.data = Bad(p) =>
              /\ notif.kind = "xor_failed"
              /\ weight = notif.weightBefore
              /\ notif.invoked = <<>>

\* C3, amended: the same for every 6-byte prefix p whose header byte is 0x03;
\* for a prefix with another header byte both payloads are dropped as
\* invalid before the checksum is looked at, weight unchanged and no
\* callback invoked.
C3_PrefixWithHeader ==
    \A p \in Prefixes :
        /\ (p[1] = HEADER /\ notif.data = Good(p)) =>
              /\ notif.kind \in Classified
              /\ ~notif.raised \/ notif.kind = "button"
        /\ (p[1] = HEADER /\ notif.data = Bad(p)) =>
              /\ notif.kind = "xor_failed"
              /\ weight = notif.weightBefore
              /\ notif.invoked = <<>>
              /\ ~notif.raised
        /\ (p[1] # HEADER /\ notif.data \in {Good(p), Bad(p)}) =>
              /\ notif.kind = "invalid"
              /\ weight = notif.weightBefore
              /\ notif.invoked = <<>>
              /\ ~notif.raised

\* C3 witness: a weight frame with a flipped checksum bit was dropped while
\* a weight was known and a button handler was registered.
C3_Witness ==
    /\ notif.kind = "xor_failed"
    /\ \E p \in Prefixes :
          /\ p[1] = HEADER
          /\ p[2] \in WEIGHT_TYPES
          /\ notif.data = Bad(p)
          /\ notif.weightBefore # None
          /\ notif.weightBefore # Some(DecodeWeight(p))
    /\ weight = notif.weightBefore
    /\ Len(button_callbacks) > 0

\* C4: a payload that is no well-formed frame (length other than 7, the
\* empty payload included, or header byte other than 0x03) is rejected
\* without an exception leaving the handler, without a change of the weight
\* and without a callback invoked.
C4_MalformedRejectedQuietly ==
    (notif.kind # "none"
        /\ (Len(notif.data) # FRAME_LEN \/ notif.data[1] # HEADER)) =>
        /\ ~notif.raised
        /\ weight = notif.weightBefore
        /\ notif.invoked = <<>>

\* C5: once disable_notification() has returned, the weight is None until
\* notifications are enabled again.
C5_WeightUnknownWhileDisabled ==
    (notifying = "disabled" /\ pc = "idle") => weight = None

\* C6: a button callback that raises does not disable later notification
\* delivery.
C6_CallbackFaultKeepsDelivery ==
    (notif.kind = "button" /\ notif.raised) => delivery = "ok"

\* C7: a fault raised by the transport inside a facade operation is never
\* raised to the caller.
C7_TransportFaultNotRaised ==
    /\ ~last.raised
    /\ ac.result # "raised"

\* C8: when discovery returns no address k times and then an address, with
\* k < n_retries, auto_connect makes k+1 discovery attempts and no more,
\* connects only to the address found, and returns True as soon as a
\* connect(address) call returns True.
C8_AutoConnectDiscovery ==
    /\ (ac.phase \in {"find", "connect", "done"} /\ ac.address # None) =>
          /\ ac.phase # "find"
          /\ ac.nNone < ac.n
          /\ ac.nFind = ac.nNone + 1
    /\ (ac.phase = "done" /\ ac.nConnect > 0) =>
          /\ ac.address # None
          /\ last.op = "connect"
          /\ ~last.skipped => last.calls[1].arg = ac.address[1]
          /\ (~last.raised /\ last.result = "True") <=> ac.result = "True"
    /\ ac.result = "True" => connected

\* C8 witness: n_retries = 3, two empty discoveries and then an address:
\* three discovery attempts, and True returned after a new link was opened.
C8_Witness ==
    /\ ac.phase = "done"
    /\ ac.n = 3
    /\ ac.nNone = 2
    /\ ac.nFind = 3
    /\ ac.result = "True"
    /\ ~last.skipped
    /\ last.calls[1].op = "connect"
    /\ last.calls[1].ok

\* C9: disconnect() on a driver that is not connected makes no transport
\* call, does not raise, returns False and leaves it disconnected; on a
\* connected driver it closes the link once, and a close that succeeded
\* leaves the driver disconnected, so a second disconnect() is that no-op.
C9_DisconnectIdempotent ==
    last.op = "disconnect" =>
        /\ ~last.wasConnected =>
              /\ last.skipped
              /\ last.calls = <<>>
              /\ ~last.raised
              /\ last.result = "False"
              /\ last.printed = "Already disconnected."
              /\ ~connected
        /\ last.wasConnected =>
              /\ Len(last.calls) = 1
              /\ last.calls[1].op = "disconnect"
              /\ last.calls[1].ok => (~connected /\ last.result = "False")

\* C9 witness: disconnect() on a driver that had been connected (it tared)
\* and is disconnected already.
C9_Witness ==
    /\ last.op = "disconnect"
    /\ ~last.wasConnected
    /\ last.skipped
    /\ nTare > 0
    /\ ~connected

\* C10: one valid button frame invokes every registered callback exactly
\* once, in registration order, each with the driver and (byte 2, byte 3).
C10_EveryCallbackInvoked ==
    notif.kind = "button" =>
        notif.invoked = [i \in 1..Len(button_callbacks) |->
                            <<button_callbacks[i], "self",
                              notif.data[3], notif.data[4]>>]

\* C11: connect(address) on a driver that is already connected makes no
\* transport call (no connection attempt, no LED write), prints 'Already
\* connected.', returns True, and leaves the link and every field of the
\* driver as they were; the same when auto_connect makes that call.
C11_ConnectWhenConnectedIsNoOp ==
    [][(last'.op = "connect" /\ last'.wasConnected) =>
          /\ last'.skipped
          /\ last'.calls = <<>>
          /\ last'.printed = "Already connected."
          /\ last'.result = "True"
          /\ ~last'.raised
          /\ connected'
          /\ UNCHANGED <<connected, client, fix_dropped_command, weight,
                         button_callbacks, tare_commands, subscribed, delivery, loop,
                         pc, notifying, nTare>>]_vars

\* C11 witness: connect() returned True without a transport call on a driver
\* that was connected, had tared and had notifications enabled.
C11_Witness ==
    /\ last.op = "connect"
    /\ last.wasConnected
    /\ last.skipped
    /\ last.result = "True"
    /\ connected
    /\ subscribed
    /\ nTare > 0

\* C12: a valid frame of type 0xCA or 0xCE sets the weight to the 16-bit
\* big-endian two's-complement value of bytes 2-3, in tenths of a gram:
\* 00 64 gives 10.0 g (100 tenths), FF F6 gives -1.0 g (-10 tenths), and
\* every raw value in 0x8000..0xFFFF gives a negative weight.
C12_WeightIsSigned16 ==
    notif.kind = "weight" =>
        /\ notif.data[2] \in {\hCA, \hCE}
        /\ weight # None
        /\ LET raw == (256 * notif.data[3]) + notif.data[4]
               v == weight[1]
           IN  /\ v \in -32768..32767
               /\ (v - raw) % 65536 = 0
               /\ raw >= 32768 => v < 0
               /\ (notif.data[3] = \h00 /\ notif.data[4] = \h64) => v = 100
               /\ (notif.data[3] = \hFF /\ notif.data[4] = \hF6) => v = -10

\* C12 witness: the frame 03 CE FF F6 .. arrived while the weight was 10.0 g
\* and left it at -1.0 g.
C12_Witness ==
    /\ notif.kind = "weight"
    /\ notif.data[2] = \hCE
    /\ notif.data[3] = \hFF
    /\ notif.data[4] = \hF6
    /\ notif.weightBefore = Some(100)
    /\ weight = Some(-10)

\* What one complete __send(cmd) awaits on this driver: the write, with the
\* resend enabled the pause and the same write again, then the settle wait.
CompleteSend(cmd) ==
    IF fix_dropped_command
    THEN <<Call("write", CHAR_WRITE, cmd, TRUE), Sleep(dropped_command_sleep),
           Call("write", CHAR_WRITE, cmd, TRUE), Sleep(send_settle_sleep)>>
    ELSE <<Call("write", CHAR_WRITE, cmd, TRUE), Sleep(send_settle_sleep)>>

\* C13: when auto_connect returns True after opening a new link, what the
\* driver did on that link before returning is exactly one complete LED-off
\* send followed by one complete LED-on send: nothing else is written in
\* between or before, and every LED-off write precedes every LED-on write.
C13_BlinkAfterNewLink ==
    (ac.phase = "done" /\ ac.result = "True" /\ ~last.skipped) =>
        /\ last.op = "connect"
        /\ ~last.wasConnected
        /\ connected
        /\ last.calls[1] = Call("connect", "", ac.address[1], TRUE)
        /\ Tail(last.calls) =
              CompleteSend(<<\h03, \h0A, \h00, \h00, \h00, \h00, \h09>>)
                \o CompleteSend(<<\h03, \h0A, \h01, \h01, \h00, \h00, \h09>>)

\* C13 witness: auto_connect(3) returned True on its second connect attempt,
\* with the resend enabled: the link was opened and four LED writes made.
C13_Witness ==
    /\ ac.phase = "done"
    /\ ac.result = "True"
    /\ ac.nConnect = 2
    /\ fix_dropped_command
    /\ ~last.skipped
    /\ Len(last.calls) = 9
    /\ last.calls[2].op = "write"

SendOps == {"tare", "start_time", "stop_time", "reset_time", "led_on", "led_off"}

\* The frame a send operation writes; the k-th tare writes tare frame (k-1) mod 3.
FrameOf(op) ==
    IF op = "tare" THEN <<\h03, \h0F, (nTare - 1) % 3, \h00, \h00, \h00,
                          \h0C + ((nTare - 1) % 3)>>
    ELSE IF op = "start_time" THEN <<\h03, \h0B, \h03, \h00, \h00, \h00, \h0B>>
    ELSE IF op = "stop_time" THEN <<\h03, \h0B, \h00, \h00, \h00, \h00, \h08>>
    ELSE IF op = "reset_time" THEN <<\h03, \h0B, \h02, \h00, \h00, \h00, \h0A>>
    ELSE IF op = "led_on" THEN <<\h03, \h0A, \h01, \h01, \h00, \h00, \h09>>
    ELSE <<\h03, \h0A, \h00, \h00, \h00, \h00, \h09>>

\* C14: one send on a connected driver writes its frame to the write
\* characteristic; with the resend enabled it then waits the pause and
\* writes the identical frame once more (a tare repeats its sequence byte),
\* with the resend disabled it writes once; the call returns only after the
\* settle wait that follows the last write.  A second write is made only
\* after the first has completed: a write that faults is the last thing the
\* send does.
C14_SendWritesTwiceOrOnce ==
    (last.op \in SendOps /\ ~last.skipped) =>
        LET c == last.calls
            cmd == FrameOf(last.op)
        IN  /\ ~last.raised => c = CompleteSend(cmd)
            /\ last.raised =>
                  \/ c = <<Call("write", CHAR_WRITE, cmd, FALSE)>>
                  \/ /\ fix_dropped_command
                     /\ c = <<Call("write", CHAR_WRITE, cmd, TRUE),
                              Sleep(dropped_command_sleep),
                              Call("write", CHAR_WRITE, cmd, FALSE)>>

\* C14 witness: the second tare on a driver with the resend enabled wrote
\* the frame with sequence byte 1 twice and returned.
C14_Witness ==
    /\ last.op = "tare"
    /\ ~last.skipped
    /\ ~last.raised
    /\ fix_dropped_command
    /\ nTare = 2
    /\ Len(last.calls) = 4
    /\ last.calls[1].arg[3] = 1
    /\ last.calls[3].arg[3] = 1

\* C15: auto_connect(n_retries) makes at most n_retries discovery attempts
\* and at most n_retries connect attempts; when no discovery yields an
\* address it makes no connect attempt and returns False; when every
\* connect attempt fails (the transport raises or reports failure) it makes
\* exactly n_retries of them, all to the address found, returns False,
\* leaves the driver disconnected and writes no LED frame; and an
\* auto_connect that ends without a connection has returned, not raised.
C15_AutoConnectBoundedNeverRaises ==
    /\ ac.nFind <= ac.n
    /\ ac.nConnect <= ac.n
    /\ (ac.phase = "done" /\ ac.address = None /\ ac.result # "raised") =>
          /\ ac.nConnect = 0
          /\ ac.result = "False"
    /\ (ac.phase = "done" /\ ac.nConnect > 0 /\ ~connected) =>
          /\ ac.nConnect = ac.n
          /\ ac.result = "False"
          /\ last.op = "connect"
          /\ last.calls = <<Call("connect", "", ac.address[1], FALSE)>>
    /\ (ac.phase = "done" /\ ~connected) => ac.result # "raised"

\* C16: a valid frame whose type is the status report 0x0A (whatever its
\* battery and firmware bytes), the tare acknowledgement 0x0F, the timer
\* acknowledgement 0x0B or an unrecognised one changes no field of the
\* driver, invokes no callback and raises nothing; and the weight changes
\* only when a valid weight frame arrives or disable_notification clears it.
C16_OtherFramesChangeNothing ==
    [][/\ (notif' # notif /\ notif'.kind \in Classified
              /\ notif'.data[2] \notin {\hCA, \hCE, \hAA}) =>
             /\ notif'.invoked = <<>>
             /\ ~notif'.raised
             /\ UNCHANGED <<connected, client, fix_dropped_command, weight,
                            button_callbacks, tare_commands, subscribed,
                            delivery, loop, pc, notifying, nTare>>
       /\ weight' # weight =>
             \/ /\ notif' # notif
                /\ notif'.kind \in Classified
                /\ notif'.data[2] \in {\hCA, \hCE}
             \/ /\ weight' = None
                /\ pc = "idle"
                /\ pc' = "disable_notification"]_vars

\* C16 witness: a status frame with the unrecognised battery byte 0x65 and
\* the unrecognised firmware code 0x03 arrived, was logged with two warnings
\* and left the known weight in place, a button handler being registered.
C16_Witness ==
    /\ notif.kind = "status"
    /\ notif.data[2] = \h0A
    /\ notif.data[5] = \h65
    /\ notif.data[6] = \h03
    /\ notif.log[2] = "warning: Unknown battery level"
    /\ notif.log[3] = "warning: Firmware Version is not known"
    /\ notif.invoked = <<>>
    /\ weight # None
    /\ weight = notif.weightBefore
    /\ Len(button_callbacks) > 0

\* The catalogued commands: the three tare frames, LED on, LED off, timer
\* start, timer stop and timer reset.
Catalogue ==
    { <<\h03, \h0F, \h00, \h00, \h00, \h00, \h0C>>,
      <<\h03, \h0F, \h01, \h00, \h00, \h00, \h0D>>,
      <<\h03, \h0F, \h02, \h00, \h00, \h00, \h0E>>,
      <<\h03, \h0A, \h01, \h01, \h00, \h00, \h09>>,
      <<\h03, \h0A, \h00, \h00, \h00, \h00, \h09>>,
      <<\h03, \h0B, \h03, \h00, \h00, \h00, \h0B>>,
      <<\h03, \h0B, \h00, \h00, \h00, \h00, \h08>>,
      <<\h03, \h0B, \h02, \h00, \h00, \h00, \h0A>> }

\* C17: every frame the driver writes goes to the write characteristic, is
\* 7 bytes long, starts with 0x03, ends with the XOR of its first six bytes,
\* and is bit for bit one of the catalogued commands.
C17_WrittenFramesWellFormed ==
    \A i \in 1..Len(last.calls) :
        last.calls[i].op = "write" =>
            LET frame == last.calls[i].arg
            IN  /\ last.calls[i].char = "000036f5-0000-1000-8000-00805f9b34fb"
                /\ Len(frame) = 7
                /\ frame[1] = \h03
                /\ frame[7] = XorReduce(SubSeq(frame, 1, 6))
                /\ frame \in Catalogue

\* C17 witness: a connect that opened a link and completed both LED sends,
\* after the driver had tared three times, so that LED and all three tare
\* frames have been written.
C17_Witness ==
    /\ last.op = "connect"
    /\ ~last.raised
    /\ last.result = "True"
    /\ nTare = 3
    /\ \E i \in 1..Len(last.calls) :
          /\ last.calls[i].op = "write"
          /\ last.calls[i].ok
          /\ last.calls[i].arg[2] = \h0A
          /\ last.calls[i].arg[3] = \h01

\* C19: a tare() skipped by the guard writes nothing and leaves the rotation
\* where it was; connect, disconnect and the other commands leave it too; a
\* tare that runs writes the frame at the rotation's position and moves it
\* on by one, modulo 3.  So the sequence bytes written by successive tares
\* go 0, 1, 2, 0, 1, 2, ... with none skipped or repeated.
C19_SkippedTareKeepsRotation ==
    [][/\ (last'.op = "tare" /\ last'.skipped) =>
             /\ last'.calls = <<>>
             /\ tare_commands' = tare_commands
             /\ nTare' = nTare
       /\ (last'.op = "tare" /\ ~last'.skipped) =>
             /\ nTare' = nTare + 1
             /\ tare_commands' = (tare_commands + 1) % 3
             /\ last'.calls[1].op = "write"
             /\ \A i \in 1..Len(last'.calls) :
                   last'.calls[i].op = "write" =>
                       last'.calls[i].arg[3] = tare_commands
       /\ last'.op # "tare" => tare_commands' = tare_commands
       /\ tare_commands' = nTare' % 3]_vars

\* C19 witness: a tare skipped by the guard after one tare had run and the
\* driver was disconnected: the rotation still stands at sequence byte 1.
C19_Witness ==
    /\ last.op = "tare"
    /\ last.skipped
    /\ ~connected
    /\ client # None
    /\ nTare = 1
    /\ tare_commands = 1

\* C18: a facade operation invoked on a connected driver with the loop
\* running eventually returns, every transport call completing - also when
\* it is invoked from inside a button callback: the loop thread, once it
\* waits for such a call, is eventually running again.
C18_CallFromCallbackReturns ==
    (loop = "blocked") ~> (loop = "running")

====
